---- MODULE Spec2Model ----
(***************************************************************************)
(* imdb-trakt-sync: the three sync commands (sync_watchlist, sync_ratings, *)
(* sync_history) of src/imdb_trakt_sync.py as a state machine.  One run of *)
(* one command is modelled from the parsing of the IMDb feed to the last   *)
(* Trakt call.  Every Trakt call is one step, may fail (raise_for_status), *)
(* and is recorded in `requests`.  Trakt itself is the environment: its    *)
(* watchlist, ratings, history pages and watching status are state, its    *)
(* search results are chosen when the probe is answered.                   *)
(***************************************************************************)
EXTENDS Integers, Sequences, FiniteSets, TLC

\* ------------------------------------------------------------------ bounds
\* Longest IMDb feed (number of CSV rows) that is explored.
MaxFeed == 2
\* Largest page number of /sync/history that is explored.
MaxPage == 2
MaxReruns == 1

\* --------------------------------------------------------------- constants
\* _END_OF_DAY_TIME = time(hour=23, minute=59, second=59)
EndOfDayHour == 23
EndOfDayMinute == 59
EndOfDaySecond == 59

\* ------------------------------------------------------------- identifiers
\* Strings the code inspects by prefix are sequences of characters.
tt1 == <<"t", "t", "1">>
tt2 == <<"t", "t", "2">>
tt3 == <<"t", "t", "3">>
nm1 == <<"n", "m", "1">>
\* Python's None where an identifier is expected (Trakt's ids.imdb is nullable).
None == <<"None">>

\* str.startswith
StartsWith(s, prefix) ==
    /\ Len(s) >= Len(prefix)
    /\ SubSeq(s, 1, Len(prefix)) = prefix

_IMDB_MOVIE_TYPES == {"Movie", "Short", "TV Movie", "TV Special", "Video"}
_IMDB_SHOW_TYPES == {"TV Series", "TV Mini Series"}

\* The trakt_type a row's Title Type maps to; None when it maps to nothing.
TraktTypeOf(title_type) ==
    IF title_type \in _IMDB_MOVIE_TYPES THEN "movie"
    ELSE IF title_type \in _IMDB_SHOW_TYPES THEN "show"
    ELSE "None"

\* assert imdb_id.startswith("tt")
ConstOK(row) == StartsWith(row.Const, <<"t", "t">>)

\* TitleTypeOK without the assertion: an unmapped Title Type is let through.
TitleTypeUnchecked(row) == TRUE

\* assert trakt_type
TitleTypeOK(row) == TraktTypeOf(row.TitleType) # "None"

\* Both assertions of the row loop hold for the row.
RowOK(row) == ConstOK(row) /\ TitleTypeOK(row)

\* int(row["Your Rating"]): a decimal numeral, as a sequence of digit characters.
Digits == <<"0", "1", "2", "3", "4", "5", "6", "7", "8", "9">>
DigitVal(c) == (CHOOSE k \in 1..Len(Digits) : Digits[k] = c) - 1
RECURSIVE ParseInt(_)
ParseInt(s) ==
    IF s = <<>> THEN 0
    ELSE ParseInt(SubSeq(s, 1, Len(s) - 1)) * Len(Digits) + DigitVal(s[Len(s)])

\* ------------------------------------------------------------- date, time
\* A datetime is <<day, hour, minute, second>>, a calendar date its day number.
\* datetime.strptime(text, "%Y-%m-%d"): midnight of that day.
Strptime(day) == <<day, 0, 0, 0>>
_END_OF_DAY_TIME == <<EndOfDayHour, EndOfDayMinute, EndOfDaySecond>>
\* datetime.combine(d, t): the date of d with the time t.
Combine(d, t) == <<d[1], t[1], t[2], t[3]>>

\* d1 <= d2 on datetimes
DtLeq(d1, d2) ==
    \/ d1[1] < d2[1]
    \/ d1[1] = d2[1] /\ d1[2] < d2[2]
    \/ d1[1] = d2[1] /\ d1[2] = d2[2] /\ d1[3] < d2[3]
    \/ d1[1] = d2[1] /\ d1[2] = d2[2] /\ d1[3] = d2[3] /\ d1[4] <= d2[4]

\* min(d1, d2)
DtMin(d1, d2) == IF DtLeq(d1, d2) THEN d1 ELSE d2

\* datetime.isoformat(): "<date>T<hh>:<mm>:<ss>", as the sequence of its fields.
Isoformat(d) == <<d[1], "T", d[2], ":", d[3], ":", d[4]>>

\* The datetime an isoformat text denotes (used to state properties only).
FromIso(s) == <<s[1], s[3], s[5], s[7]>>

\* TitleRatedAt without the cap at _NOW.
TitleRatedAtUncapped(rated_on, now) == Combine(rated_on, _END_OF_DAY_TIME)

\* title_rated_at = min(datetime.combine(rated_on, _END_OF_DAY_TIME), _NOW)
TitleRatedAt(rated_on, now) == DtMin(Combine(rated_on, _END_OF_DAY_TIME), now)


\* ------------------------------------------------------------------- state
VARIABLES
    cmd,            \* the command that runs
    dry_run,        \* its --dry-run flag
    feed,           \* the rows of the IMDb CSV feed
    now,            \* _NOW, taken when the program starts
    trakt_wl,       \* Trakt: the watchlist, a set of [type, imdb]
    trakt_rt,       \* Trakt: the ratings, a set of [type, imdb, rating]
    trakt_hist,     \* Trakt: the history, a sequence of pages of [type, imdb]
    hdr,            \* Trakt: the X-Pagination-* headers it sends with page p
    watching,       \* Trakt: what /users/me/watching answers
    ratelimit,      \* Trakt: the X-Ratelimit header it sends with a response
    runs,           \* the runs of the command that ended before this one
    pc,             \* the call the command is about to make
    items,          \* the parsed feed
    existing_movie_imdb_ids,
    existing_episodes_imdb_ids,
    add_movies,
    add_shows,
    add_episodes,
    remove_movies,
    remove_shows,
    not_rated_on_imdb,
    page,           \* trakt_request_paginated's page
    idx,            \* _filter_unknown_imdb_ids' position in its items
    kept,           \* the items _filter_unknown_imdb_ids has yielded
    requests,       \* every request sent to Trakt, in order
    dry_log         \* the "[DRY RUN] Would ..." records

remote == <<trakt_wl, trakt_rt, trakt_hist>>
env == <<cmd, dry_run, feed, now, hdr, watching, ratelimit, runs>>
locals == <<items, existing_movie_imdb_ids, existing_episodes_imdb_ids,
            add_movies, add_shows, add_episodes, remove_movies, remove_shows,
            not_rated_on_imdb, page, idx, kept>>
vars == <<cmd, dry_run, feed, now, trakt_wl, trakt_rt, trakt_hist, hdr, watching,
          ratelimit, runs, pc, items, existing_movie_imdb_ids,
          existing_episodes_imdb_ids, add_movies, add_shows, add_episodes,
          remove_movies, remove_shows, not_rated_on_imdb, page, idx, kept, requests,
          dry_log>>

\* ------------------------------------------------------------ small helpers
Range(s) == {s[k] : k \in 1..Len(s)}

\* Every sequence over S of length at most n.
SeqsUpTo(S, n) == UNION {[1..k -> S] : k \in 0..n}

\* The lists a Python set may be iterated as.
Orders(S) == {s \in [1..Cardinality(S) -> S] : Range(s) = S}

\* item["ids"]["imdb"] of every item of a batch
ImdbIds(batch) == {batch[k].ids.imdb : k \in 1..Len(batch)}

\* ----------------------------------------------------------------- requests
_TRAKT_WATCHLIST_URL == "/sync/watchlist"
_TRAKT_UPDATE_WATCHLIST_URL == "/sync/watchlist"
_TRAKT_REMOVE_FROM_WATCHLIST_URL == "/sync/watchlist/remove"
_TRAKT_RATINGS_URL == "/sync/ratings"
_TRAKT_HISTORY_URL == "/sync/history"
_TRAKT_ADD_RATINGS_URL == "/sync/ratings"
_TRAKT_SEARCH_URL == "/search"
TraktWatchingUrl == "/users/me/watching"

\* The JSON payload of a mutation: all kinds in one object.
Data(movies, shows, seasons, episodes) ==
    [movies |-> movies, shows |-> shows, seasons |-> seasons, episodes |-> episodes]
NoData == Data(<<>>, <<>>, <<>>, <<>>)

\* trakt_request after raise_for_status: if method != "GET": sleep(1)
SleptAfter(method, ok) == IF ok /\ method # "GET" THEN 1 ELSE 0

\* One entry of `requests`: the call, and whether Trakt answered it with success.
\* ratelimit: the X-Ratelimit header of the response; slept: the seconds
\* trakt_request slept before it returned the response.
Get(url, ok) ==
    [method |-> "GET", url |-> url, imdb |-> None, type |-> "None", page |-> 0,
     data |-> NoData, ok |-> ok, results |-> 0, ratelimit |-> ratelimit, slept |-> 0]
GetPage(url, p, ok) == [Get(url, ok) EXCEPT !.page = p]
GetSearch(imdb_id, type, ok, n) ==
    [Get(_TRAKT_SEARCH_URL, ok) EXCEPT !.imdb = imdb_id, !.type = type, !.results = n]
Post(url, data, ok) ==
    [Get(url, ok) EXCEPT !.method = "POST", !.data = data,
                         !.slept = SleptAfter("POST", ok)]

\* RaiseForStatus that lets a failed call pass.
RaiseForStatusIgnored(ok, next) == next

\* response.raise_for_status(): a failed call raises, and nothing catches it.
RaiseForStatus(ok, next) == IF ok THEN next ELSE "error"

\* ------------------------------------------------------------- source feed
\* fetch_imdb_watchlist / fetch_imdb_ratings: the first row that breaks an
\* assertion raises; otherwise every row becomes an item.
FeedOK(rows) == \A k \in 1..Len(rows) : RowOK(rows[k])

\* IMDBWatchlistItem(imdb_id, trakt_type)
IMDBWatchlistItem(row) ==
    [imdb_id |-> row.Const, trakt_type |-> TraktTypeOf(row.TitleType)]

\* IMDBRatingItem(imdb_id, rating, rated_on, trakt_type)
IMDBRatingItem(row) ==
    [imdb_id |-> row.Const, rating |-> ParseInt(row.YourRating),
     rated_on |-> Strptime(row.DateRated), trakt_type |-> TraktTypeOf(row.TitleType)]

\* --------------------------------------------------------------- reconciler
\* _trakt_mediaitem_imdb_id: every type of the model's items carries ids.imdb.
TraktMediaitemImdbId(item) == item.imdb

\* _compact_set
CompactSet(s) == {x \in s : x # None}

\* existing_<kind>_imdb_ids of sync_watchlist
ExistingImdbIds(media_items, type) ==
    CompactSet({TraktMediaitemImdbId(i) : i \in {j \in media_items : j.type = type}})

\* imdb_<kind>_ids: the identifiers of the parsed items of one trakt_type
LocalImdbIds(its, type) ==
    {its[k].imdb_id : k \in {j \in 1..Len(its) : its[j].trakt_type = type}}

\* ToAdd without the subtraction of what Trakt already holds.
ToAddAll(local, existing) == local

\* imdb_ids - existing_imdb_ids
ToAdd(local, existing) == local \ existing

\* ToRemove that finds nothing to remove.
ToRemoveNone(local, existing) == {}

\* existing_imdb_ids - imdb_ids
ToRemove(local, existing) == existing \ local

\* {"ids": {"imdb": imdb}}
AnyItem(imdb) == [ids |-> [imdb |-> imdb]]

\* [{"ids": {"imdb": imdb}} for imdb in ids], in any order the set iterates in
AnyItemLists(ids) == {[k \in 1..Len(o) |-> AnyItem(o[k])] : o \in Orders(ids)}

\* {"watched_at": imdb_id_rated_at[imdb].isoformat(), "ids": {"imdb": imdb}}
WatchedItem(imdb, rated_at) == [watched_at |-> Isoformat(rated_at[imdb]), ids |-> [imdb |-> imdb]]

WatchedItemLists(ids, rated_at) ==
    {[k \in 1..Len(o) |-> WatchedItem(o[k], rated_at)] : o \in Orders(ids)}

\* imdb_id_rated_at of sync_history: the last row of an identifier wins
RECURSIVE ImdbIdRatedAt(_)
ImdbIdRatedAt(its) ==
    IF its = <<>> THEN <<>>
    ELSE LET rest == ImdbIdRatedAt(SubSeq(its, 1, Len(its) - 1))
             last == its[Len(its)]
         IN  [i \in DOMAIN rest \cup {last.imdb_id} |->
                 IF i = last.imdb_id THEN last.rated_on ELSE rest[i]]

\* Whether /users/me/watching answered 200 with a status (204 gives None).
IsWatching(w) == w.type # "None"

\* _block_watching_items: drop the items whose ids.imdb is the watched title's.
RECURSIVE BlockWatchingItems(_, _)
BlockWatchingItems(its, w) ==
    IF ~IsWatching(w) THEN its
    ELSE IF w.type \notin {"movie", "episode"} THEN its
    ELSE IF its = <<>> THEN <<>>
    ELSE IF Head(its).ids.imdb = w.imdb THEN BlockWatchingItems(Tail(its), w)
    ELSE <<Head(its)>> \o BlockWatchingItems(Tail(its), w)

\* trakt_rated of sync_ratings: the dict built from the ratings in list order
RECURSIVE TraktRated(_)
TraktRated(rated) ==
    IF rated = <<>> THEN <<>>
    ELSE LET rest == TraktRated(SubSeq(rated, 1, Len(rated) - 1))
             last == rated[Len(rated)]
             id == TraktMediaitemImdbId(last)
         IN  IF id = None THEN rest
             ELSE [i \in DOMAIN rest \cup {id} |-> IF i = id THEN last.rating ELSE rest[i]]

\* not_rated_on_imdb = set(trakt_rated.keys()) - set(imdb_rated.keys()): the
\* identifiers the loop logs as "rated ... on Trakt, but not IMDb".
NotRatedOnImdb(trakt_rated, imdb_ratings) ==
    DOMAIN trakt_rated \ {imdb_ratings[k].imdb_id : k \in 1..Len(imdb_ratings)}

\* ShouldRate without the update branch: only titles Trakt has no rating for.
ShouldRateNewOnly(imdb_rating, trakt_rated) ==
    imdb_rating.imdb_id \notin DOMAIN trakt_rated

\* should_rate of sync_ratings
ShouldRate(imdb_rating, trakt_rated) ==
    IF imdb_rating.imdb_id \in DOMAIN trakt_rated
    THEN imdb_rating.rating # trakt_rated[imdb_rating.imdb_id]
    ELSE TRUE

\* rated_item of sync_ratings
RatedItem(imdb_rating, t) ==
    [rated_at |-> Isoformat(TitleRatedAt(imdb_rating.rated_on, t)),
     rating |-> imdb_rating.rating,
     ids |-> [imdb |-> imdb_rating.imdb_id]]

\* AddRatings that appends an updated rating in the update branch and again
\* under should_rate.
RECURSIVE AddRatingsTwice(_, _, _, _)
AddRatingsTwice(imdb_ratings, trakt_rated, type, t) ==
    IF imdb_ratings = <<>> THEN <<>>
    ELSE LET rest == AddRatingsTwice(SubSeq(imdb_ratings, 1, Len(imdb_ratings) - 1),
                                     trakt_rated, type, t)
             last == imdb_ratings[Len(imdb_ratings)]
         IN  IF ~(ShouldRate(last, trakt_rated) /\ last.trakt_type = type) THEN rest
             ELSE IF last.imdb_id \in DOMAIN trakt_rated
             THEN rest \o <<RatedItem(last, t), RatedItem(last, t)>>
             ELSE Append(rest, RatedItem(last, t))

\* The add_<kind> list the loop over imdb_ratings appends to.
RECURSIVE AddRatings(_, _, _, _)
AddRatings(imdb_ratings, trakt_rated, type, t) ==
    IF imdb_ratings = <<>> THEN <<>>
    ELSE LET rest == AddRatings(SubSeq(imdb_ratings, 1, Len(imdb_ratings) - 1),
                                trakt_rated, type, t)
             last == imdb_ratings[Len(imdb_ratings)]
         IN  IF ShouldRate(last, trakt_rated) /\ last.trakt_type = type
             THEN Append(rest, RatedItem(last, t))
             ELSE rest

\* ---------------------------------------------------------- mutation calls
\* AllEmpty without the early return.
NeverEmpty(data) == FALSE

\* if not movies and not shows and not seasons and not episodes: return
AllEmpty(data) ==
    /\ data.movies = <<>>
    /\ data.shows = <<>>
    /\ data.seasons = <<>>
    /\ data.episodes = <<>>

\* SendsPost without the dry-run return.
SendsPostDespiteDryRun(data, dry) == ~AllEmpty(data)

\* Whether a mutation call gets as far as its trakt_request(method="POST").
SendsPost(data, dry) == ~AllEmpty(data) /\ ~dry

\* The "[DRY RUN] Would <verb> %d <kind>" records of one call, one per non-empty kind.
DryRunRecords(verb, data) ==
    LET rec(kind, batch) ==
            IF batch = <<>> THEN <<>>
            ELSE <<[verb |-> verb, n |-> Len(batch), kind |-> kind]>>
    IN  rec("movies", data.movies) \o rec("shows", data.shows)
            \o rec("seasons", data.seasons) \o rec("episodes", data.episodes)

\* What Trakt holds after it applied a POST (the remote API's side of the call).
TypedIds(batch, type) == {[type |-> type, imdb |-> batch[k].ids.imdb] : k \in 1..Len(batch)}
DataIds(data) ==
    TypedIds(data.movies, "movie") \cup TypedIds(data.shows, "show")
        \cup TypedIds(data.seasons, "season") \cup TypedIds(data.episodes, "episode")
WatchlistAfterAdd(wl, data) == wl \cup DataIds(data)
WatchlistAfterRemove(wl, data) == wl \ DataIds(data)
TypedRatings(batch, type) ==
    {[type |-> type, imdb |-> batch[k].ids.imdb, rating |-> batch[k].rating] :
        k \in 1..Len(batch)}
RatingsAfterAdd(rt, data) ==
    LET new == TypedRatings(data.movies, "movie") \cup TypedRatings(data.shows, "show")
    IN  {r \in rt : \A n \in new : ~(n.type = r.type /\ n.imdb = r.imdb)} \cup new
HistoryAfterAdd(hist, data) ==
    IF hist = <<>> THEN <<DataIds(data)>>
    ELSE [hist EXCEPT ![1] = @ \cup DataIds(data)]

\* One mutation call: trakt_update_watchlist, trakt_remove_from_watchlist,
\* trakt_add_ratings or trakt_add_history.  wl2, rt2, hist2: Trakt after the POST.
Mutate(url, data, verb, next, wl2, rt2, hist2) ==
    IF ~SendsPost(data, dry_run)
    THEN /\ pc' = next
         /\ dry_log' = IF AllEmpty(data) THEN dry_log
                       ELSE dry_log \o DryRunRecords(verb, data)
         /\ UNCHANGED <<requests, remote>>
    ELSE \E ok \in BOOLEAN :
            /\ requests' = Append(requests, Post(url, data, ok))
            /\ pc' = RaiseForStatus(ok, next)
            /\ trakt_wl' = IF ok THEN wl2 ELSE trakt_wl
            /\ trakt_rt' = IF ok THEN rt2 ELSE trakt_rt
            /\ trakt_hist' = IF ok THEN hist2 ELSE trakt_hist
            /\ UNCHANGED dry_log

\* ------------------------------------------------------------- pagination
\* PaginationDone with > for >=.
PaginationDonePast(h) == h.page > h.page_count

\* _trakt_pagination + the loop's exit test: pagination.page >= pagination.page_count
PaginationDone(h) == h.page >= h.page_count

\* The items Trakt sends as page p of the history.
HistoryPage(hist, p) == IF p \in 1..Len(hist) THEN hist[p] ELSE {}

\* Headers of a server that echoes the page asked for and counts its pages.
EchoHeaders(hist) == [p \in 1..MaxPage |-> [page |-> p, page_count |-> Len(hist)]]

\* ------------------------------------------------- existence filter, phases
\* AfterBlock with the filter of the shows ahead of the filter of the movies.
AfterBlockShowsFirst(m, s, e, mutate) ==
    IF s # <<>> THEN "filter_shows"
    ELSE IF m # <<>> THEN "filter_movies"
    ELSE IF e # <<>> THEN "filter_episodes"
    ELSE mutate

\* The pc after the add lists are final but for _filter_unknown_imdb_ids: the
\* first list that has an item to probe, else the mutation call.
AfterBlock(m, s, e, mutate) ==
    IF m # <<>> THEN "filter_movies"
    ELSE IF s # <<>> THEN "filter_shows"
    ELSE IF e # <<>> THEN "filter_episodes"
    ELSE mutate

\* The mutation call a command makes first.
FirstMutation(c) ==
    IF c = "sync_watchlist" THEN "trakt_update_watchlist"
    ELSE IF c = "sync_ratings" THEN "trakt_add_ratings"
    ELSE "trakt_add_history"

\* ------------------------------------------------------------------ inputs
\* Rows of an IMDb export: a title has one Title Type.  BadTitles break one of
\* the two assertions of the row loop each.
RatedTitles ==
    {[Const |-> tt1, TitleType |-> "Movie"], [Const |-> tt2, TitleType |-> "TV Series"]}
WatchlistTitles == RatedTitles \cup {[Const |-> tt3, TitleType |-> "Short"]}
BadTitles ==
    {[Const |-> nm1, TitleType |-> "Movie"], [Const |-> tt1, TitleType |-> "Podcast"]}
WatchlistRows == WatchlistTitles \cup BadTitles

\* _NOW of the runs explored: noon of the day numbered 1.
Noon == <<1, 12, 0, 0>>
Today == Noon[1]
Yesterday == Today - 1
Tomorrow == Today + 1

RatingRowsOf(titles, ratings, dates) ==
    {[Const |-> t.Const, TitleType |-> t.TitleType, YourRating |-> r, DateRated |-> d] :
        t \in titles, r \in ratings, d \in dates}
\* The ratings feed of the runs of all three commands.
RatingRows ==
    RatingRowsOf(RatedTitles, {<<"7">>, <<"9">>}, {Today})
        \cup RatingRowsOf(BadTitles, {<<"7">>}, {Today})
\* The ratings feed sync_history reads: it uses the date, never the rating.
HistoryRows == RatingRowsOf(RatedTitles \cup BadTitles, {<<"7">>}, {Yesterday})
\* The ratings feed of the runs of sync_ratings alone: every date against _NOW.
RatingRowsWide ==
    RatingRowsOf(RatedTitles, {<<"7">>, <<"9">>}, {Yesterday, Today, Tomorrow})
        \cup RatingRowsOf(BadTitles, {<<"7">>}, {Today})

\* Trakt's side.
WatchlistItems ==
    {[type |-> "movie", imdb |-> tt1], [type |-> "movie", imdb |-> tt3],
     [type |-> "show", imdb |-> tt2], [type |-> "season", imdb |-> None]}
RatingItems ==
    {[type |-> "movie", imdb |-> tt1, rating |-> 7],
     [type |-> "show", imdb |-> tt2, rating |-> 9],
     [type |-> "season", imdb |-> None, rating |-> 7]}
HistoryPages == {{[type |-> "movie", imdb |-> tt1]}, {[type |-> "episode", imdb |-> tt2]}}
NotWatching == [type |-> "None", imdb |-> None]
Watchings ==
    {NotWatching, [type |-> "movie", imdb |-> tt1], [type |-> "episode", imdb |-> tt2]}

\* X-Ratelimit headers: the whole capacity left, and capacities at and just below
\* a quarter and a tenth of the limit.
Ratelimit(remaining) == [remaining |-> remaining, limit |-> 1000]
Plenty == Ratelimit(1000)
Ratelimits == {Ratelimit(r) : r \in {1000, 250, 249, 100, 99, 0}}

\* The state a command starts in.
Start ==
    /\ pc = "start"
    /\ items = <<>>
    /\ existing_movie_imdb_ids = {}
    /\ existing_episodes_imdb_ids = {}
    /\ add_movies = <<>>
    /\ add_shows = <<>>
    /\ add_episodes = <<>>
    /\ remove_movies = <<>>
    /\ remove_shows = <<>>
    /\ not_rated_on_imdb = {}
    /\ page = 1
    /\ idx = 1
    /\ kept = <<>>
    /\ requests = <<>>
    /\ dry_log = <<>>

InitWatchlistOf(rows, ws, limits) ==
    /\ cmd = "sync_watchlist"
    /\ dry_run \in BOOLEAN
    /\ feed \in SeqsUpTo(rows, MaxFeed)
    /\ now = Noon
    /\ trakt_wl \in SUBSET WatchlistItems
    /\ trakt_rt = {}
    /\ trakt_hist = <<>>
    /\ hdr = EchoHeaders(trakt_hist)
    /\ watching \in ws
    /\ ratelimit \in limits
    /\ runs = <<>>
    /\ Start

InitWatchlist == InitWatchlistOf(WatchlistRows, Watchings, {Plenty})

InitRatingsOf(rows, ws, nows) ==
    /\ cmd = "sync_ratings"
    /\ dry_run \in BOOLEAN
    /\ feed \in SeqsUpTo(rows, MaxFeed)
    /\ now \in nows
    /\ trakt_wl = {}
    /\ trakt_rt \in SUBSET RatingItems
    /\ trakt_hist = <<>>
    /\ hdr = EchoHeaders(trakt_hist)
    /\ watching \in ws
    /\ ratelimit = Plenty
    /\ runs = <<>>
    /\ Start

\* Headers of a server that sends any page and page_count with any page.
AnyHeaders == [1..MaxPage -> [page : 1..MaxPage, page_count : 0..MaxPage]]

InitHistoryOf(feeds, ws, any_headers) ==
    /\ cmd = "sync_history"
    /\ dry_run \in BOOLEAN
    /\ feed \in feeds
    /\ now = Noon
    /\ trakt_wl = {}
    /\ trakt_rt = {}
    /\ trakt_hist \in SeqsUpTo(HistoryPages, MaxPage)
    /\ hdr \in (IF any_headers THEN AnyHeaders ELSE {EchoHeaders(trakt_hist)})
    /\ watching \in ws
    /\ ratelimit = Plenty
    /\ runs = <<>>
    /\ Start

Init ==
    \/ InitWatchlist
    \/ InitRatingsOf(RatingRows, Watchings, {Noon})
    \/ InitHistoryOf(SeqsUpTo(HistoryRows, MaxFeed), Watchings, FALSE)

\* Runs of sync_ratings alone, over every date against two values of _NOW.
EndOfToday == Combine(Noon, _END_OF_DAY_TIME)
InitRatings == InitRatingsOf(RatingRowsWide, {NotWatching}, {Noon, EndOfToday})

\* Runs of sync_history alone against a server that sends any pagination headers.
PaginatedFeeds == SeqsUpTo(RatingRowsOf(RatedTitles, {<<"7">>}, {Yesterday}), 1)
InitPaginated == InitHistoryOf(PaginatedFeeds, {NotWatching}, TRUE)

\* Runs of sync_watchlist alone against a server that sends any of the
\* X-Ratelimit headers.
InitPaced == InitWatchlistOf(WatchlistTitles, {NotWatching}, Ratelimits)

\* Runs of sync_watchlist that may be followed by further runs of it.
InitTwice ==
    InitWatchlistOf(WatchlistTitles, {NotWatching, [type |-> "movie", imdb |-> tt1]},
                    {Plenty})

\* ----------------------------------------------------------------- actions
\* sync_watchlist: items = fetch_imdb_watchlist(imdb_watchlist_url)
FetchImdbWatchlist ==
    /\ pc = "start"
    /\ cmd = "sync_watchlist"
    /\ pc' = IF FeedOK(feed) THEN "trakt_watchlist" ELSE "error"
    /\ items' = IF FeedOK(feed) THEN [k \in 1..Len(feed) |-> IMDBWatchlistItem(feed[k])]
                ELSE items
    /\ UNCHANGED <<env, remote, existing_movie_imdb_ids, existing_episodes_imdb_ids,
                   add_movies, add_shows, add_episodes, remove_movies, remove_shows,
                   page, idx, kept, requests, dry_log,
                   not_rated_on_imdb>>

\* sync_ratings, sync_history: fetch_imdb_ratings(imdb_ratings_url)
FetchImdbRatings ==
    /\ pc = "start"
    /\ cmd \in {"sync_ratings", "sync_history"}
    /\ pc' = IF ~FeedOK(feed) THEN "error"
             ELSE IF cmd = "sync_ratings" THEN "trakt_ratings"
             ELSE "trakt_history"
    /\ items' = IF FeedOK(feed) THEN [k \in 1..Len(feed) |-> IMDBRatingItem(feed[k])]
                ELSE items
    /\ UNCHANGED <<env, remote, existing_movie_imdb_ids, existing_episodes_imdb_ids,
                   add_movies, add_shows, add_episodes, remove_movies, remove_shows,
                   page, idx, kept, requests, dry_log,
                   not_rated_on_imdb>>

\* sync_watchlist: existing_media_items = list(trakt_watchlist(session)), then
\* the four set differences.
TraktWatchlist ==
    /\ pc = "trakt_watchlist"
    /\ \E ok \in BOOLEAN :
        /\ requests' = Append(requests, Get(_TRAKT_WATCHLIST_URL, ok))
        /\ pc' = RaiseForStatus(ok, "trakt_watching")
        /\ IF ok
           THEN LET existing_show_imdb_ids == ExistingImdbIds(trakt_wl, "show")
                    imdb_movie_ids == LocalImdbIds(items, "movie")
                    imdb_show_ids == LocalImdbIds(items, "show")
                IN  /\ existing_movie_imdb_ids' = ExistingImdbIds(trakt_wl, "movie")
                    /\ add_movies' \in
                         AnyItemLists(ToAdd(imdb_movie_ids, existing_movie_imdb_ids'))
                    /\ add_shows' \in
                         AnyItemLists(ToAdd(imdb_show_ids, existing_show_imdb_ids))
                    /\ remove_movies' \in
                         AnyItemLists(ToRemove(imdb_movie_ids, existing_movie_imdb_ids'))
                    /\ remove_shows' \in
                         AnyItemLists(ToRemove(imdb_show_ids, existing_show_imdb_ids))
           ELSE UNCHANGED <<existing_movie_imdb_ids, add_movies, add_shows,
                            remove_movies, remove_shows>>
    /\ UNCHANGED <<env, remote, items, existing_episodes_imdb_ids, add_episodes,
                   page, idx, kept, dry_log,
                   not_rated_on_imdb>>

\* sync_ratings: the loop over trakt_ratings(session, "all"), then the loop over
\* imdb_ratings that fills add_movies and add_shows.
TraktRatings ==
    /\ pc = "trakt_ratings"
    /\ \E ok \in BOOLEAN :
        /\ requests' = Append(requests, Get(_TRAKT_RATINGS_URL, ok))
        /\ IF ok
           THEN \E rated \in Orders(trakt_rt) :
                  LET trakt_rated == TraktRated(rated)
                  IN  /\ add_movies' = AddRatings(items, trakt_rated, "movie", now)
                      /\ add_shows' = AddRatings(items, trakt_rated, "show", now)
                      /\ not_rated_on_imdb' = NotRatedOnImdb(trakt_rated, items)
                      /\ pc' = AfterBlock(add_movies', add_shows', <<>>, FirstMutation(cmd))
           ELSE /\ pc' = RaiseForStatus(ok, pc)
                /\ UNCHANGED <<add_movies, add_shows, not_rated_on_imdb>>
    /\ UNCHANGED <<env, remote, items, existing_movie_imdb_ids,
                   existing_episodes_imdb_ids, add_episodes, remove_movies,
                   remove_shows, page, idx, kept, dry_log>>

\* sync_history: one turn of trakt_request_paginated's loop under the loop over
\* trakt_history(session); after the last page, the two add lists.
TraktHistory ==
    /\ pc = "trakt_history"
    /\ page <= MaxPage
    /\ \E ok \in BOOLEAN :
        /\ requests' = Append(requests, GetPage(_TRAKT_HISTORY_URL, page, ok))
        /\ IF ok
           THEN LET trakt_items == HistoryPage(trakt_hist, page)
                    imdb_id_rated_at == ImdbIdRatedAt(items)
                IN  /\ existing_movie_imdb_ids' = existing_movie_imdb_ids \cup
                            {i.imdb : i \in {j \in trakt_items : j.type = "movie"}}
                    /\ existing_episodes_imdb_ids' = existing_episodes_imdb_ids \cup
                            {i.imdb : i \in {j \in trakt_items : j.type = "episode"}}
                    /\ IF PaginationDone(hdr[page])
                       THEN /\ add_movies' \in WatchedItemLists(
                                    ToAdd(LocalImdbIds(items, "movie"),
                                          existing_movie_imdb_ids'), imdb_id_rated_at)
                            /\ add_episodes' \in WatchedItemLists(
                                    ToAdd(LocalImdbIds(items, "episode"),
                                          existing_episodes_imdb_ids'), imdb_id_rated_at)
                            /\ pc' = "trakt_watching"
                            /\ page' = page
                       ELSE /\ page' = page + 1
                            /\ UNCHANGED <<pc, add_movies, add_episodes>>
           ELSE /\ pc' = RaiseForStatus(ok, pc)
                /\ UNCHANGED <<existing_movie_imdb_ids, existing_episodes_imdb_ids,
                               add_movies, add_episodes, page>>
    /\ UNCHANGED <<env, remote, items, add_shows, remove_movies, remove_shows,
                   idx, kept, dry_log,
                   not_rated_on_imdb>>

\* sync_watchlist, sync_history: if watching_item := trakt_watching(session)
TraktWatching ==
    /\ pc = "trakt_watching"
    /\ \E ok \in BOOLEAN :
        /\ requests' = Append(requests, Get(TraktWatchingUrl, ok))
        /\ IF ok
           THEN /\ add_movies' = BlockWatchingItems(add_movies, watching)
                /\ add_shows' = IF cmd = "sync_watchlist"
                                THEN BlockWatchingItems(add_shows, watching) ELSE add_shows
                /\ remove_movies' = IF cmd = "sync_watchlist"
                                    THEN BlockWatchingItems(remove_movies, watching)
                                    ELSE remove_movies
                /\ remove_shows' = IF cmd = "sync_watchlist"
                                   THEN BlockWatchingItems(remove_shows, watching)
                                   ELSE remove_shows
                /\ add_episodes' = IF cmd = "sync_history"
                                   THEN BlockWatchingItems(add_episodes, watching)
                                   ELSE add_episodes
                /\ pc' = AfterBlock(add_movies', add_shows', add_episodes',
                                    FirstMutation(cmd))
           ELSE /\ pc' = RaiseForStatus(ok, pc)
                /\ UNCHANGED <<add_movies, add_shows, add_episodes, remove_movies,
                               remove_shows>>
    /\ UNCHANGED <<env, remote, items, existing_movie_imdb_ids,
                   existing_episodes_imdb_ids, page, idx, kept, dry_log,
                   not_rated_on_imdb>>

\* The list _filter_unknown_imdb_ids walks in a phase, and the type it asks for.
FilterType == IF pc = "filter_movies" THEN "movie"
              ELSE IF pc = "filter_shows" THEN "show" ELSE "episode"
FilterItems == IF pc = "filter_movies" THEN add_movies
               ELSE IF pc = "filter_shows" THEN add_shows ELSE add_episodes

\* Yields without the test: an item is yielded whatever the search returns.
YieldsAlways(n) == TRUE

\* if len(results) > 0: yield item
Yields(n) == n > 0

\* One turn of _filter_unknown_imdb_ids' loop: the search probe of items[idx].
\* After the last item the list is replaced by what was yielded.
FilterUnknownImdbIds ==
    /\ pc \in {"filter_movies", "filter_shows", "filter_episodes"}
    /\ idx <= Len(FilterItems)
    /\ \E ok \in BOOLEAN : \E n \in (IF ok THEN {0, 1} ELSE {0}) :
        LET item == FilterItems[idx]
            kept2 == IF Yields(n) THEN Append(kept, item) ELSE kept
            last == idx = Len(FilterItems)
            m2 == IF pc = "filter_movies" THEN kept2 ELSE add_movies
            s2 == IF pc = "filter_shows" THEN kept2 ELSE add_shows
            e2 == IF pc = "filter_episodes" THEN kept2 ELSE add_episodes
        IN  /\ requests' = Append(requests, GetSearch(item.ids.imdb, FilterType, ok, n))
            /\ IF ok /\ last
               THEN /\ add_movies' = m2
                    /\ add_shows' = s2
                    /\ add_episodes' = e2
                    /\ kept' = <<>>
                    /\ idx' = 1
                    /\ pc' = AfterBlock(<<>>,
                                        IF pc = "filter_movies" THEN add_shows ELSE <<>>,
                                        IF pc = "filter_episodes" THEN <<>> ELSE add_episodes,
                                        FirstMutation(cmd))
               ELSE /\ pc' = RaiseForStatus(ok, pc)
                    /\ kept' = IF ok THEN kept2 ELSE kept
                    /\ idx' = IF ok THEN idx + 1 ELSE idx
                    /\ UNCHANGED <<add_movies, add_shows, add_episodes>>
    /\ UNCHANGED <<env, remote, items, existing_movie_imdb_ids,
                   existing_episodes_imdb_ids, remove_movies, remove_shows, page,
                   dry_log,
                   not_rated_on_imdb>>

\* sync_watchlist: trakt_update_watchlist(session, movies=add_movies, shows=add_shows)
TraktUpdateWatchlist ==
    /\ pc = "trakt_update_watchlist"
    /\ LET data == Data(add_movies, add_shows, <<>>, <<>>)
       IN  Mutate(_TRAKT_UPDATE_WATCHLIST_URL, data, "add", "trakt_remove_from_watchlist",
                  WatchlistAfterAdd(trakt_wl, data), trakt_rt, trakt_hist)
    /\ UNCHANGED <<env, locals>>

\* sync_watchlist: trakt_remove_from_watchlist(session, movies=remove_movies, shows=remove_shows)
TraktRemoveFromWatchlist ==
    /\ pc = "trakt_remove_from_watchlist"
    /\ LET data == Data(remove_movies, remove_shows, <<>>, <<>>)
       IN  Mutate(_TRAKT_REMOVE_FROM_WATCHLIST_URL, data, "remove", "done",
                  WatchlistAfterRemove(trakt_wl, data), trakt_rt, trakt_hist)
    /\ UNCHANGED <<env, locals>>

\* TraktAddRatings that hands not_rated_on_imdb to trakt_remove_ratings.
TraktAddRatingsAndRemove ==
    /\ pc = "trakt_add_ratings"
    /\ \E gone \in AnyItemLists(not_rated_on_imdb) :
        Mutate("/sync/ratings/remove", Data(gone, <<>>, <<>>, <<>>), "remove", "done",
               trakt_wl, {r \in trakt_rt : r.imdb \notin not_rated_on_imdb}, trakt_hist)
    /\ UNCHANGED <<env, locals>>

\* sync_ratings: trakt_add_ratings(session, movies=add_movies, shows=add_shows)
TraktAddRatings ==
    /\ pc = "trakt_add_ratings"
    /\ LET data == Data(add_movies, add_shows, <<>>, <<>>)
       IN  Mutate(_TRAKT_ADD_RATINGS_URL, data, "rate", "done",
                  trakt_wl, RatingsAfterAdd(trakt_rt, data), trakt_hist)
    /\ UNCHANGED <<env, locals>>

\* sync_history: trakt_add_history(session, movies=add_movies, episodes=add_episodes)
TraktAddHistory ==
    /\ pc = "trakt_add_history"
    /\ LET data == Data(add_movies, <<>>, <<>>, add_episodes)
       IN  Mutate(_TRAKT_HISTORY_URL, data, "add", "done",
                  trakt_wl, trakt_rt, HistoryAfterAdd(trakt_hist, data))
    /\ UNCHANGED <<env, locals>>

\* The command ended and is run again: a new process, with the same arguments,
\* against the same feed and the account as the run before left it.  What
\* /users/me/watching answers may have changed.
Rerun ==
    /\ pc = "done"
    /\ Len(runs) < MaxReruns
    /\ runs' = Append(runs, [requests |-> requests, watching |-> watching,
                             dry_log |-> dry_log])
    /\ watching' \in Watchings
    /\ pc' = "start"
    /\ items' = <<>>
    /\ existing_movie_imdb_ids' = {}
    /\ existing_episodes_imdb_ids' = {}
    /\ add_movies' = <<>>
    /\ add_shows' = <<>>
    /\ add_episodes' = <<>>
    /\ remove_movies' = <<>>
    /\ remove_shows' = <<>>
    /\ not_rated_on_imdb' = {}
    /\ page' = 1
    /\ idx' = 1
    /\ kept' = <<>>
    /\ requests' = <<>>
    /\ dry_log' = <<>>
    /\ UNCHANGED <<cmd, dry_run, feed, now, hdr, ratelimit, remote>>

NextWatchlist ==
    \/ FetchImdbWatchlist
    \/ TraktWatchlist
    \/ TraktWatching
    \/ FilterUnknownImdbIds
    \/ TraktUpdateWatchlist
    \/ TraktRemoveFromWatchlist

NextRatings ==
    \/ FetchImdbRatings
    \/ TraktRatings
    \/ FilterUnknownImdbIds
    \/ TraktAddRatings

NextHistory ==
    \/ FetchImdbRatings
    \/ TraktHistory
    \/ TraktWatching
    \/ FilterUnknownImdbIds
    \/ TraktAddHistory

Next ==
    \/ FetchImdbWatchlist
    \/ FetchImdbRatings
    \/ TraktWatchlist
    \/ TraktRatings
    \/ TraktHistory
    \/ TraktWatching
    \/ FilterUnknownImdbIds
    \/ TraktUpdateWatchlist
    \/ TraktRemoveFromWatchlist
    \/ TraktAddRatings
    \/ TraktAddHistory

Spec == Init /\ [][Next]_vars
SpecRatings == InitRatings /\ [][NextRatings]_vars
SpecPaginated == InitPaginated /\ [][NextHistory]_vars
SpecPaced == InitPaced /\ [][NextWatchlist]_vars
NextTwice == NextWatchlist \/ Rerun
SpecTwice == InitTwice /\ [][NextTwice]_vars

\* ------------------------------------------------------------------ claims
\* What the claims speak of, taken from the feed and from Trakt's state.
RowsOfKind(type) == {k \in 1..Len(feed) : TraktTypeOf(feed[k].TitleType) = type}
FeedIds(type) == {feed[k].Const : k \in RowsOfKind(type)}
RemoteIds(type) == {i.imdb : i \in {j \in trakt_wl : j.type = type}} \ {None}
Posts == {k \in 1..Len(requests) : requests[k].method = "POST"}
AllItems(data) == data.movies \o data.shows \o data.seasons \o data.episodes
NoDuplicates(batch) == Cardinality(ImdbIds(batch)) = Len(batch)

\* The payload and the URL of the mutation call the command is about to make.
MutationPcs ==
    {"trakt_update_watchlist", "trakt_remove_from_watchlist", "trakt_add_ratings",
     "trakt_add_history"}
PendingData ==
    IF pc = "trakt_remove_from_watchlist"
    THEN [movies |-> remove_movies, shows |-> remove_shows, seasons |-> <<>>,
          episodes |-> <<>>]
    ELSE IF pc = "trakt_add_history"
    THEN [movies |-> add_movies, shows |-> <<>>, seasons |-> <<>>,
          episodes |-> add_episodes]
    ELSE [movies |-> add_movies, shows |-> add_shows, seasons |-> <<>>, episodes |-> <<>>]
PendingUrl ==
    IF pc = "trakt_update_watchlist" THEN "/sync/watchlist"
    ELSE IF pc = "trakt_remove_from_watchlist" THEN "/sync/watchlist/remove"
    ELSE IF pc = "trakt_add_ratings" THEN "/sync/ratings"
    ELSE "/sync/history"

\* The batch of one kind of a payload, by the kind's name in the payload.
BatchOf(data, kind) ==
    IF kind = "movies" THEN data.movies
    ELSE IF kind = "shows" THEN data.shows
    ELSE IF kind = "seasons" THEN data.seasons
    ELSE data.episodes
Kinds == <<"movies", "shows", "seasons", "episodes">>

\* sync_watchlist has read the watchlist and computed its four lists.
WatchlistComputed == cmd = "sync_watchlist" /\ pc = "trakt_watching"

\* C1: in sync_watchlist, for each kind with feed identifiers A and watchlist
\* identifiers B, the add list holds exactly A - B and the remove list exactly
\* B - A; the two are disjoint, the add list shares nothing with B and the remove
\* list nothing with A.
C1_AddRemoveAreSetDifferences ==
    WatchlistComputed =>
        \A t \in {"movie", "show"} :
            LET A == FeedIds(t)
                B == RemoteIds(t)
                add == IF t = "movie" THEN add_movies ELSE add_shows
                remove == IF t = "movie" THEN remove_movies ELSE remove_shows
            IN  /\ ImdbIds(add) = A \ B
                /\ ImdbIds(remove) = B \ A
                /\ NoDuplicates(add) /\ NoDuplicates(remove)
                /\ ImdbIds(add) \cap ImdbIds(remove) = {}
                /\ ImdbIds(add) \cap B = {}
                /\ ImdbIds(remove) \cap A = {}

\* C1 witness: both differences of the movies are non-empty, and a show is on
\* both sides and in neither list.
C1_Witness ==
    /\ WatchlistComputed
    /\ add_movies # <<>>
    /\ remove_movies # <<>>
    /\ FeedIds("show") \cap RemoteIds("show") # {}
    /\ add_shows = <<>>
    /\ remove_shows = <<>>

\* C2: in each of the three commands, while Trakt reports a title as being
\* watched, no batch posted to Trakt holds an entry with that title's identifier.
C2_WatchedTitleNeverSubmitted ==
    IsWatching(watching) =>
        \A k \in Posts : watching.imdb \notin ImdbIds(AllItems(requests[k].data))

\* C3: in dry-run mode no step of any command sends a POST or changes Trakt's
\* watchlist, ratings or history; a mutation call only logs one "[DRY RUN]"
\* record per non-empty kind, with the count of that kind's batch.
C3_DryRunNeverMutates ==
    [][dry_run =>
        (/\ remote' = remote
         /\ \A k \in 1..Len(requests') : requests'[k].method # "POST"
         /\ IF pc \in MutationPcs
            THEN LET new == SubSeq(dry_log', Len(dry_log) + 1, Len(dry_log'))
                     logged == {k \in 1..Len(Kinds) : BatchOf(PendingData, Kinds[k]) # <<>>}
                 IN  /\ SubSeq(dry_log', 1, Len(dry_log)) = dry_log
                     /\ Len(new) = Cardinality(logged)
                     /\ \A k \in logged : \E j \in 1..Len(new) :
                            /\ new[j].kind = Kinds[k]
                            /\ new[j].n = Len(BatchOf(PendingData, Kinds[k]))
            ELSE dry_log' = dry_log)]_vars

\* C3 witness: a dry run ended after logging what it would have added and removed.
C3_Witness ==
    /\ dry_run
    /\ pc = "done"
    /\ \E j, k \in 1..Len(dry_log) : dry_log[j].verb = "add" /\ dry_log[k].verb = "remove"

\* sync_ratings has read Trakt's ratings and computed its two add lists.
RatingsComputed == cmd = "sync_ratings" /\ Len(requests) = 1 /\ requests[1].ok

\* The ratings Trakt holds for an identifier.
RemoteRatings(id) == {r.rating : r \in {x \in trakt_rt : x.imdb = id}}
\* Row k is to be rated: Trakt has no rating for its title, or another one.
Differs(k) ==
    \/ RemoteRatings(feed[k].Const) = {}
    \/ ParseInt(feed[k].YourRating) \notin RemoteRatings(feed[k].Const)
AddRated == add_movies \o add_shows

\* C4: in sync_ratings a feed row (i, r) has a rated item (i, r) in the add lists
\* if and only if Trakt has no rating for i or a rating other than r; every item
\* of the lists carries the rating of such a row and is in the list of its kind.
C4_RatedIffAbsentOrDifferent ==
    RatingsComputed =>
        /\ \A k \in 1..Len(feed) :
            (\E j \in 1..Len(AddRated) :
                /\ AddRated[j].ids.imdb = feed[k].Const
                /\ AddRated[j].rating = ParseInt(feed[k].YourRating))
            <=> Differs(k)
        /\ \A t \in {"movie", "show"} :
            LET add == IF t = "movie" THEN add_movies ELSE add_shows
            IN  \A j \in 1..Len(add) : \E k \in RowsOfKind(t) :
                    /\ Differs(k)
                    /\ add[j].ids.imdb = feed[k].Const
                    /\ add[j].rating = ParseInt(feed[k].YourRating)

\* C4 witness: one row is an update (Trakt holds another rating) and is in the
\* list, another row matches Trakt's rating and is not.
C4_Witness ==
    /\ RatingsComputed
    /\ \E k \in 1..Len(feed) : RemoteRatings(feed[k].Const) # {} /\ Differs(k)
    /\ \E k \in 1..Len(feed) : ~Differs(k)
    /\ Len(AddRated) = 1

\* The number of rated items the add lists hold for an identifier, and the
\* number of feed rows of that identifier that are to be rated.
CountItems(id) == Cardinality({j \in 1..Len(AddRated) : AddRated[j].ids.imdb = id})
CountRows(id) == Cardinality({k \in 1..Len(feed) : feed[k].Const = id /\ Differs(k)})
RowsOf(id) == {k \in 1..Len(feed) : feed[k].Const = id}
\* Row k updates a rating Trakt holds.
IsUpdate(k) == RemoteRatings(feed[k].Const) # {} /\ Differs(k)

\* C5 as stated: for every feed, an identifier whose rating is updated has exactly
\* one rated item, and no identifier occurs twice across add_movies and add_shows.
C5_NoIdentifierTwice ==
    RatingsComputed =>
        /\ \A k \in 1..Len(feed) : IsUpdate(k) => CountItems(feed[k].Const) = 1
        /\ NoDuplicates(AddRated)

\* C5 as amended: the add lists hold one rated item per feed row that is to be
\* rated, so an identifier has as many items as it has such rows; an identifier
\* of a single row whose rating is updated has exactly one item, with that row's
\* rating, and an identifier occurs twice only if two feed rows carry it.
C5_OneItemPerRatedRow ==
    RatingsComputed =>
        /\ \A k \in 1..Len(feed) : CountItems(feed[k].Const) = CountRows(feed[k].Const)
        /\ \A j \in 1..Len(AddRated) : RowsOf(AddRated[j].ids.imdb) # {}
        /\ \A k \in 1..Len(feed) :
            IsUpdate(k) /\ RowsOf(feed[k].Const) = {k} =>
                \E j \in 1..Len(AddRated) :
                    /\ AddRated[j].ids.imdb = feed[k].Const
                    /\ AddRated[j].rating = ParseInt(feed[k].YourRating)
                    /\ \A i \in 1..Len(AddRated) :
                        AddRated[i].ids.imdb = feed[k].Const => i = j

\* C5 witness: Trakt rates tt1 7, the feed's only row of tt1 rates it 9, and the
\* add lists hold one item for tt1.
C5_Witness ==
    /\ RatingsComputed
    /\ \E k \in 1..Len(feed) :
        /\ feed[k].Const = tt1
        /\ RowsOf(tt1) = {k}
        /\ RemoteRatings(tt1) = {7}
        /\ ParseInt(feed[k].YourRating) = 9
        /\ CountItems(tt1) = 1

\* Seconds from the start of day 0.
Seconds(d) == ((d[1] * 24 + d[2]) * 60 + d[3]) * 60 + d[4]
EndOfDaySeconds(day) == Seconds(<<day, EndOfDayHour, EndOfDayMinute, EndOfDaySecond>>)
SmallerOf(a, b) == IF a <= b THEN a ELSE b

\* C6: every rating posted by sync_ratings carries as rated_at the earlier of
\* 23:59:59 on its row's rated-on date and _NOW, so none is later than _NOW.
C6_RatedAtIsCappedAtNow ==
    cmd = "sync_ratings" =>
        \A p \in Posts : LET batch == AllItems(requests[p].data) IN
            \A j \in 1..Len(batch) :
                /\ batch[j].rated_at = Isoformat(FromIso(batch[j].rated_at))
                /\ Seconds(FromIso(batch[j].rated_at)) <= Seconds(now)
                /\ \E k \in 1..Len(feed) :
                    /\ feed[k].Const = batch[j].ids.imdb
                    /\ ParseInt(feed[k].YourRating) = batch[j].rating
                    /\ Seconds(FromIso(batch[j].rated_at)) =
                         SmallerOf(EndOfDaySeconds(feed[k].DateRated), Seconds(now))

\* C6 witness: one POST carries a rating of tomorrow's date, capped at _NOW, and
\* a rating of yesterday's date, at the end of that day.
C6_Witness ==
    /\ cmd = "sync_ratings"
    /\ \E p \in Posts : LET batch == AllItems(requests[p].data) IN
        /\ \E j \in 1..Len(batch), k \in 1..Len(feed) :
            /\ feed[k].Const = batch[j].ids.imdb
            /\ feed[k].DateRated = Tomorrow
            /\ FromIso(batch[j].rated_at) = now
        /\ \E j \in 1..Len(batch) :
            FromIso(batch[j].rated_at) = Combine(Strptime(Yesterday), _END_OF_DAY_TIME)

\* C7: a failed Trakt call is the last request of its run: it is not sent again,
\* nothing is sent after it, and the command has stopped.  So the remove POST of
\* sync_watchlist never follows a failed add POST, and no POST follows a failed
\* read or probe.
C7_FailedCallAborts ==
    \A k \in 1..Len(requests) :
        ~requests[k].ok => k = Len(requests) /\ pc = "error"

\* C7 witness: sync_watchlist stopped at a failed add POST with a removal pending.
C7_Witness ==
    /\ cmd = "sync_watchlist"
    /\ ~dry_run
    /\ pc = "error"
    /\ requests # <<>>
    /\ LET last == requests[Len(requests)]
       IN  /\ last.method = "POST"
           /\ last.url = _TRAKT_UPDATE_WATCHLIST_URL
           /\ ~last.ok
    /\ remove_movies \o remove_shows # <<>>

\* A row that breaks one of the two assertions of the feed loops.
BadRow(row) ==
    \/ Len(row.Const) < 2
    \/ row.Const[1] # "t"
    \/ row.Const[2] # "t"
    \/ row.TitleType \notin (_IMDB_MOVIE_TYPES \cup _IMDB_SHOW_TYPES)

\* C8: when a row of the feed has an identifier not starting with "tt" or a Title
\* Type outside the mapping table, the command stops before any request to Trakt:
\* nothing is sent, nothing is logged as intended, for no row of the feed.
C8_BadRowAbortsBeforeAnyRequest ==
    (\E k \in 1..Len(feed) : BadRow(feed[k])) =>
        /\ requests = <<>>
        /\ dry_log = <<>>
        /\ pc \in {"start", "error"}

\* C8 witness: the run stopped on a bad second row after a valid first row.
C8_Witness ==
    /\ pc = "error"
    /\ Len(feed) >= 2
    /\ ~BadRow(feed[1])
    /\ BadRow(feed[2])
    /\ requests = <<>>

\* The requests trakt_request_paginated has sent, and what it has been answered.
HistoryGets ==
    {k \in 1..Len(requests) :
        requests[k].method = "GET" /\ requests[k].url = _TRAKT_HISTORY_URL}
NumPages == Cardinality(HistoryGets)
\* The loop has ended by its break.
Exhausted == NumPages >= 1 /\ requests[NumPages].ok /\ pc # "trakt_history"
\* The server reports page_count = n with every page and echoes the page asked for.
Echoes(n) == \A p \in 1..MaxPage : hdr[p] = [page |-> p, page_count |-> n]
LargerOf(a, b) == IF a >= b THEN a ELSE b
\* The history items of the pages answered so far.
Yielded ==
    UNION {HistoryPage(trakt_hist, requests[k].page) : k \in {j \in HistoryGets : requests[j].ok}}

\* What C9 says of every server: pages are asked for in the order 1, 2, 3, ...,
\* one per request; the items of every answered page have been consumed before
\* the next request; the loop goes on after a response whose page is below its
\* page_count and ends with the first whose page is at or above it; a failed page
\* request is the last request of the run.
PaginatedInOrder ==
    /\ HistoryGets = 1..NumPages
    /\ \A k \in HistoryGets : requests[k].page = k
    /\ pc # "done" =>
        /\ existing_movie_imdb_ids = {i.imdb : i \in {j \in Yielded : j.type = "movie"}}
        /\ existing_episodes_imdb_ids =
             {i.imdb : i \in {j \in Yielded : j.type = "episode"}}
    /\ \A k \in HistoryGets :
        /\ k < NumPages => requests[k].ok /\ hdr[k].page < hdr[k].page_count
        /\ ~requests[k].ok => k = Len(requests) /\ pc = "error"
    /\ Exhausted => hdr[NumPages].page >= hdr[NumPages].page_count

\* C9 as stated: the above, and against a server that reports page_count = N and
\* echoes the page asked for, exactly the pages 1..N are requested, once each.
C9_PagesOneToN ==
    /\ PaginatedInOrder
    /\ \A n \in 0..MaxPage : Echoes(n) /\ Exhausted => NumPages = n

\* C9 as amended: the above, and against such a server exactly the pages
\* 1..max(N, 1) are requested, once each: page 1 is requested before any header
\* is read, also when N = 0; the loop never waits for a page beyond them.
C9_PagesOneToMaxNOne ==
    /\ PaginatedInOrder
    /\ \A n \in 0..MaxPage :
        Echoes(n) =>
            /\ Exhausted => NumPages = LargerOf(n, 1)
            /\ pc = "trakt_history" => page <= LargerOf(n, 1) /\ page = NumPages + 1

\* C9 witness: against a server of MaxPage pages the loop has ended after
\* requesting every one of them.
C9_Witness ==
    /\ Echoes(MaxPage)
    /\ Exhausted
    /\ NumPages = MaxPage
    /\ Len(trakt_hist) = MaxPage
    /\ Cardinality(existing_movie_imdb_ids \cup existing_episodes_imdb_ids) > 1

\* C10: a mutation call whose batches are all empty sends nothing, in dry-run and
\* in normal mode; in normal mode a call with a non-empty batch sends exactly one
\* request, a POST to the call's URL whose payload holds the batches of all kinds.
C10_OnePostOrNone ==
    [][(pc \in MutationPcs) =>
        (IF AllItems(PendingData) = <<>>
         THEN requests' = requests
         ELSE (~dry_run =>
                (/\ Len(requests') = Len(requests) + 1
                 /\ SubSeq(requests', 1, Len(requests)) = requests
                 /\ requests'[Len(requests')].method = "POST"
                 /\ requests'[Len(requests')].url = PendingUrl
                 /\ requests'[Len(requests')].data = PendingData)))]_vars

\* C10 witness: a normal run of sync_watchlist ended with one POST, the add call's
\* with movies and shows in one payload; its remove call had nothing to send.
C10_Witness ==
    /\ cmd = "sync_watchlist"
    /\ ~dry_run
    /\ pc = "done"
    /\ Cardinality(Posts) = 1
    /\ remove_movies \o remove_shows = <<>>
    /\ \E p \in Posts :
        /\ requests[p].data.movies # <<>>
        /\ requests[p].data.shows # <<>>

\* The identifiers of the feed's rows, and what Trakt holds of titles outside it.
FeedConsts == {feed[k].Const : k \in 1..Len(feed)}
RatingsOutsideFeed(rt) == {r \in rt : r.imdb \notin FeedConsts}
HistoryItems(hist) == UNION {hist[p] : p \in 1..Len(hist)}
HistoryOutsideFeed(hist) == {i \in HistoryItems(hist) : i.imdb \notin FeedConsts}
AddOnlyCommands == {"sync_ratings", "sync_history"}
AddUrls == {_TRAKT_ADD_RATINGS_URL, _TRAKT_HISTORY_URL}

\* C11: no step of sync_ratings or sync_history sends a removal: every request is
\* a GET or a POST to the add URL of ratings or history.  What Trakt holds of a
\* title absent from the feed stays as it is: its ratings and history entries are
\* neither dropped nor changed, and no history entry is ever dropped.  For ratings
\* the titles rated on Trakt but absent from the feed are exactly the set that is
\* computed for logging.
C11_AddOnly ==
    /\ [][(cmd \in AddOnlyCommands) =>
            (/\ \A k \in 1..Len(requests') :
                  /\ requests'[k].method \in {"GET", "POST"}
                  /\ requests'[k].method = "POST" => requests'[k].url \in AddUrls
             /\ RatingsOutsideFeed(trakt_rt') = RatingsOutsideFeed(trakt_rt)
             /\ HistoryOutsideFeed(trakt_hist') = HistoryOutsideFeed(trakt_hist)
             /\ HistoryItems(trakt_hist) \subseteq HistoryItems(trakt_hist')
             /\ {[type |-> r.type, imdb |-> r.imdb] : r \in trakt_rt}
                    \subseteq {[type |-> r.type, imdb |-> r.imdb] : r \in trakt_rt'}
             /\ trakt_wl' = trakt_wl)]_vars
    /\ [](RatingsComputed =>
            not_rated_on_imdb = ({r.imdb : r \in trakt_rt} \ {None}) \ FeedConsts)

\* C11 witness: sync_ratings ended after a successful POST while Trakt rates a
\* title the feed does not hold; the title was in the set computed for logging
\* and Trakt still rates it.
C11_Witness ==
    /\ cmd = "sync_ratings"
    /\ pc = "done"
    /\ Posts # {}
    /\ not_rated_on_imdb # {}
    /\ \A i \in not_rated_on_imdb : \E r \in trakt_rt : r.imdb = i

\* The search probes sent so far for one type, in order.
IsProbe(r) == r.method = "GET" /\ r.url = _TRAKT_SEARCH_URL
ProbesOf(reqs, type) == SelectSeq(reqs, LAMBDA r : IsProbe(r) /\ r.type = type)
FilterPcs == {"filter_movies", "filter_shows", "filter_episodes"}
ProbedTypes == {"movie", "show", "episode"}
\* The add list of a type.
AddListOf(type, m, s, e) == IF type = "movie" THEN m ELSE IF type = "show" THEN s ELSE e
\* The items of a batch whose probe, the one at the item's position, found a title.
RECURSIVE Known(_, _)
Known(batch, probes) ==
    IF probes = <<>> THEN <<>>
    ELSE LET n == Len(probes)
             rest == Known(batch, SubSeq(probes, 1, n - 1))
         IN  IF probes[n].results > 0 THEN Append(rest, batch[n]) ELSE rest
\* The identifiers of a batch and of the probes that found a title, in order.
ImdbSeq(batch) == [k \in 1..Len(batch) |-> batch[k].ids.imdb]
FoundSeq(probes) ==
    LET found == SelectSeq(probes, LAMBDA r : r.results > 0)
    IN  [k \in 1..Len(found) |-> found[k].imdb]
\* The existence filter has run over every add list of the command.
Filtered == pc \in MutationPcs \cup {"done"}

\* What C12 says of every batch.  While an add list is filtered, the probes sent
\* for its type are those of its first idx - 1 items, one per item and in order,
\* each with the list's type, and the items kept are those whose probe found a
\* title.  A turn of the filter sends one probe, for the next item; the turn after
\* the last item leaves as the add list exactly the items whose probe found a
\* title, every item having been probed.  No other step sends a probe, and no
\* turn of the filter touches a remove list.  Once the lists are filtered, each
\* holds the identifiers of the probes of its type that found a title, and every
\* POST of an add call carries identifiers of that kind only.
ProbedItemByItem ==
    /\ [](pc \in FilterPcs =>
            LET probes == ProbesOf(requests, FilterType)
            IN  /\ Len(probes) = idx - 1
                /\ \A k \in 1..(idx - 1) : probes[k].imdb = FilterItems[k].ids.imdb
                /\ kept = Known(FilterItems, probes))
    /\ [](Filtered =>
            /\ \A t \in ProbedTypes :
                ImdbSeq(AddListOf(t, add_movies, add_shows, add_episodes))
                    = FoundSeq(ProbesOf(requests, t))
            /\ \A p \in Posts :
                requests[p].url # _TRAKT_REMOVE_FROM_WATCHLIST_URL =>
                    /\ ImdbSeq(requests[p].data.movies)
                            = FoundSeq(ProbesOf(requests, "movie"))
                    /\ ImdbSeq(requests[p].data.shows)
                            = FoundSeq(ProbesOf(requests, "show"))
                    /\ ImdbSeq(requests[p].data.episodes)
                            = FoundSeq(ProbesOf(requests, "episode")))
    /\ [][IF pc \in FilterPcs
          THEN (/\ Len(requests') = Len(requests) + 1
                /\ IsProbe(requests'[Len(requests')])
                /\ requests'[Len(requests')].imdb = FilterItems[idx].ids.imdb
                /\ requests'[Len(requests')].type = FilterType
                /\ remove_movies' = remove_movies
                /\ remove_shows' = remove_shows
                /\ (pc' \notin {pc, "error"} =>
                      (/\ Len(ProbesOf(requests', FilterType)) = Len(FilterItems)
                       /\ AddListOf(FilterType, add_movies', add_shows', add_episodes')
                            = Known(FilterItems, ProbesOf(requests', FilterType)))))
          ELSE (\A k \in (Len(requests) + 1)..Len(requests') : ~IsProbe(requests'[k]))]_vars

\* C12 as stated: the above, and no identifier is probed twice for one type.
C12_EachIdentifierProbedOnce ==
    /\ ProbedItemByItem
    /\ [](\A t \in ProbedTypes :
            LET probes == ProbesOf(requests, t)
            IN  Cardinality({probes[k].imdb : k \in 1..Len(probes)}) = Len(probes))

\* C12 as amended: the above, with one probe per item of an add batch: an
\* identifier is probed as many times as the batch holds it, which is once in
\* sync_watchlist and sync_history, and once per rated feed row in sync_ratings.
C12_EachItemProbedOnce ==
    /\ ProbedItemByItem
    /\ [](cmd # "sync_ratings" =>
            \A t \in ProbedTypes :
                LET probes == ProbesOf(requests, t)
                IN  Cardinality({probes[k].imdb : k \in 1..Len(probes)}) = Len(probes))
    /\ [](cmd = "sync_ratings" /\ Filtered /\ Posts = {} =>
            \A i \in FeedConsts :
                Cardinality({k \in 1..Len(requests) :
                                IsProbe(requests[k]) /\ requests[k].imdb = i})
                    = CountRows(i))

\* C12 witness: sync_watchlist ended after a probe that found nothing, whose
\* title was not posted, a probe that found a title, which was posted, and a
\* remove POST of a title no probe was sent for.
C12_Witness ==
    /\ cmd = "sync_watchlist"
    /\ pc = "done"
    /\ \E j, k \in 1..Len(requests) :
        /\ IsProbe(requests[j]) /\ requests[j].results = 0
        /\ IsProbe(requests[k]) /\ requests[k].results > 0
        /\ \E p \in Posts :
            /\ requests[p].url = _TRAKT_UPDATE_WATCHLIST_URL
            /\ requests[k].imdb \in ImdbIds(AllItems(requests[p].data))
            /\ requests[j].imdb \notin ImdbIds(AllItems(requests[p].data))
    /\ \E p \in Posts :
        /\ requests[p].url = _TRAKT_REMOVE_FROM_WATCHLIST_URL
        /\ \A k \in 1..Len(requests) :
            IsProbe(requests[k]) => requests[k].imdb \notin ImdbIds(AllItems(requests[p].data))

\* The suspension the header of a response calls for: 60 seconds below a tenth of
\* the limit, 10 seconds below a quarter of it.
PacingDue(r) ==
    IF r.ratelimit.remaining * 100 < 10 * r.ratelimit.limit THEN 60
    ELSE IF r.ratelimit.remaining * 100 < 25 * r.ratelimit.limit THEN 10
    ELSE 0
\* The flat suspension after a call that is not a GET.
FlatDue(r) == IF r.method # "GET" THEN 1 ELSE 0

\* C13: after every answered call that another request follows, the client has
\* suspended at least the 10 or 60 seconds the rate-limit header of the response
\* calls for; after every answered call that is not a GET it has suspended at
\* least 1 second.
C13_HeaderDrivenPacing ==
    \A k \in 1..Len(requests) :
        requests[k].ok =>
            /\ k < Len(requests) => requests[k].slept >= PacingDue(requests[k])
            /\ requests[k].slept >= FlatDue(requests[k])

\* The place of a request in the order of the calls of sync_watchlist.
CallOrder ==
    <<"watchlist read", "watching read", "movie probe", "show probe", "add POST",
      "remove POST">>
CallOf(r) ==
    IF IsProbe(r) THEN (IF r.type = "movie" THEN "movie probe"
                        ELSE IF r.type = "show" THEN "show probe" ELSE "other")
    ELSE IF r.method = "GET" /\ r.url = _TRAKT_WATCHLIST_URL THEN "watchlist read"
    ELSE IF r.method = "GET" /\ r.url = TraktWatchingUrl THEN "watching read"
    ELSE IF r.method = "POST" /\ r.url = _TRAKT_UPDATE_WATCHLIST_URL THEN "add POST"
    ELSE IF r.method = "POST" /\ r.url = _TRAKT_REMOVE_FROM_WATCHLIST_URL
    THEN "remove POST"
    ELSE "other"
Place(r) == CHOOSE n \in 0..Len(CallOrder) :
                IF CallOf(r) = "other" THEN n = 0 ELSE n > 0 /\ CallOrder[n] = CallOf(r)
OnceOnly == {"watchlist read", "watching read", "add POST", "remove POST"}

\* C14: in a run of sync_watchlist every request is one of the six calls, each
\* step sends at most one request, after the answers to all before it, and the
\* requests come in the order: the watchlist read, the watching read, the probes
\* of the movies to add, the probes of the shows to add, the add POST, the remove
\* POST.  The two reads come first and once each, each POST at most once; no read
\* or probe follows a POST, the remove POST never precedes the add POST, and every
\* title of the add POST was probed, with its kind, before it.
C14_CallsInOrder ==
    /\ [](cmd = "sync_watchlist" =>
            /\ \A k \in 1..Len(requests) : Place(requests[k]) > 0
            /\ \A j, k \in 1..Len(requests) :
                j < k =>
                    /\ Place(requests[j]) <= Place(requests[k])
                    /\ CallOf(requests[j]) \in OnceOnly =>
                            Place(requests[j]) < Place(requests[k])
                    /\ requests[j].ok
            /\ Len(requests) >= 1 => CallOf(requests[1]) = "watchlist read"
            /\ Len(requests) >= 2 => CallOf(requests[2]) = "watching read"
            /\ \A p \in Posts :
                CallOf(requests[p]) = "add POST" =>
                    /\ \A i \in ImdbIds(requests[p].data.movies) :
                        \E k \in 1..(p - 1) :
                            CallOf(requests[k]) = "movie probe" /\ requests[k].imdb = i
                    /\ \A i \in ImdbIds(requests[p].data.shows) :
                        \E k \in 1..(p - 1) :
                            CallOf(requests[k]) = "show probe" /\ requests[k].imdb = i)
    /\ [][(cmd = "sync_watchlist") =>
            (/\ Len(requests') <= Len(requests) + 1
             /\ SubSeq(requests', 1, Len(requests)) = requests)]_vars

\* C14 witness: a run of sync_watchlist ended after all six calls: both reads, a
\* probe of a movie and one of a show, the add POST and the remove POST.
C14_Witness ==
    /\ cmd = "sync_watchlist"
    /\ pc = "done"
    /\ {CallOf(requests[k]) : k \in 1..Len(requests)} = Range(CallOrder)
    /\ CallOf(requests[Len(requests)]) = "remove POST"

\* A run that ended with nothing being watched and every probe finding its
\* title, dry runs excluded.  A run that ended had every request answered with
\* success, so Trakt applied the batches it was sent.
Settles(reqs, w) ==
    /\ ~dry_run
    /\ ~IsWatching(w)
    /\ \A k \in 1..Len(reqs) : IsProbe(reqs[k]) => reqs[k].results > 0
WatchlistEqualsFeed == \A t \in {"movie", "show"} : RemoteIds(t) = FeedIds(t)

\* C15: when a run of sync_watchlist that is not a dry run ends, nothing was
\* being watched and every probe found its title, Trakt's watchlist holds the
\* movies and shows of the feed and no others.  Every later run against the same
\* feed finds it so, computes four empty lists, sends no probe and no POST, and
\* leaves the watchlist as it is, whatever is being watched then.
C15_SecondRunIsIdle ==
    /\ (runs = <<>> /\ pc = "done" /\ Settles(requests, watching)) => WatchlistEqualsFeed
    /\ (runs # <<>> /\ Settles(runs[1].requests, runs[1].watching)) =>
            /\ WatchlistEqualsFeed
            /\ add_movies = <<>> /\ add_shows = <<>>
            /\ remove_movies = <<>> /\ remove_shows = <<>>
            /\ \A k \in 1..Len(requests) : requests[k].method = "GET" /\ ~IsProbe(requests[k])
            /\ Len(requests) <= 2

\* C15 witness: the first run added a title and removed another, and the second
\* run ended after its two reads alone.
C15_Witness ==
    /\ runs # <<>>
    /\ Settles(runs[1].requests, runs[1].watching)
    /\ \E j, k \in 1..Len(runs[1].requests) :
        /\ CallOf(runs[1].requests[j]) = "add POST"
        /\ CallOf(runs[1].requests[k]) = "remove POST"
    /\ pc = "done"
    /\ Len(requests) = 2
    /\ IsWatching(watching)

====
